---- MODULE Spec2Model ----
(***************************************************************************)
(* The retrieval subsystem of Desktop Mate: DocumentChunker (chunker.ts),  *)
(* VectorStore (vector-store.ts, on better-sqlite3) and RAGService         *)
(* (rag.ts).                                                               *)
(*                                                                         *)
(* A text is a sequence of one-character strings.  A chunk id is the       *)
(* string the code builds.  The database is one record holding the three   *)
(* tables; a JavaScript turn (the code between two awaits) is one step.    *)
(***************************************************************************)
EXTENDS Integers, Sequences, FiniteSets, TLC

VARIABLES db, usingSqliteVec, open, initialized, calls, pending, result, env,
          chunkOptions, chunkArgs, chunkResult,
          similarityArgs, similarityResult

\* a DocumentChunker, the arguments of the call of chunk made on it, and
\* what the call returned
chunkerVars == <<chunkOptions, chunkArgs, chunkResult>>

\* the arguments of a call of one of the cosineSimilarity functions, and
\* what the call returned
similarityVars == <<similarityArgs, similarityResult>>

vars == <<db, usingSqliteVec, open, initialized, calls, pending, result, env,
          chunkerVars, similarityVars>>

(***************************************************************************)
(* Bounds of the model.                                                    *)
(***************************************************************************)
\* indexDocument calls that may be suspended in their await at one time
MaxInFlight == 2
\* search is called with limit 1..MaxLimit, retrieve with maxResults 1..MaxLimit
MaxLimit == 2
\* the longest text chunk is called with, but for the example of the
\* specification
MaxTextLen == 5
\* the most lines of a text put together from whole lines
MaxLines == 3

(***************************************************************************)
(* Strings.                                                                *)
(***************************************************************************)
Min(a, b) == IF a <= b THEN a ELSE b

\* the characters String.prototype.trim removes, as far as the texts use them
WhiteSpace == {" ", "\n", "\r"}

RECURSIVE TrimStart(_)
TrimStart(s) ==
    IF s # <<>> /\ Head(s) \in WhiteSpace THEN TrimStart(Tail(s)) ELSE s

RECURSIVE TrimEnd(_)
TrimEnd(s) ==
    IF s # <<>> /\ s[Len(s)] \in WhiteSpace
    THEN TrimEnd(SubSeq(s, 1, Len(s) - 1))
    ELSE s

\* String.prototype.trim
Trim(s) == TrimEnd(TrimStart(s))

\* s.startsWith(p, i - 1), for a 1-based position i
StartsWithAt(s, p, i) ==
    /\ i + Len(p) - 1 <= Len(s)
    /\ \A j \in 1..Len(p) : s[i + j - 1] = p[j]

\* s.indexOf(p), 1-based, 0 when p does not occur (p non-empty)
IndexOf(s, p) ==
    IF \E i \in 1..Len(s) : StartsWithAt(s, p, i)
    THEN CHOOSE i \in 1..Len(s) :
            /\ StartsWithAt(s, p, i)
            /\ \A j \in 1..(i - 1) : ~StartsWithAt(s, p, j)
    ELSE 0

\* String.prototype.split(sep): the pieces between the occurrences of sep,
\* found left to right; an empty sep gives the single characters
RECURSIVE Split(_, _)
Split(s, sep) ==
    IF sep = <<>>
    THEN [i \in 1..Len(s) |-> <<s[i]>>]
    ELSE LET i == IndexOf(s, sep)
         IN  IF i = 0
             THEN <<s>>
             ELSE <<SubSeq(s, 1, i - 1)>>
                  \o Split(SubSeq(s, i + Len(sep), Len(s)), sep)

\* text.replace(/\r\n/g, '\n')
RECURSIVE NormalizeLineEndings(_)
NormalizeLineEndings(s) ==
    IF s = <<>> THEN <<>>
    ELSE IF Len(s) >= 2 /\ s[1] = "\r" /\ s[2] = "\n"
         THEN <<"\n">> \o NormalizeLineEndings(SubSeq(s, 3, Len(s)))
         ELSE <<Head(s)>> \o NormalizeLineEndings(Tail(s))

\* s.slice(-n) for n >= 0: the last n characters, and, -0 being 0, all of s
\* when n = 0
SliceLast(s, n) ==
    IF n = 0 THEN s ELSE SubSeq(s, Len(s) - Min(n, Len(s)) + 1, Len(s))

(***************************************************************************)
(* Metadata: a set of <<key, value>> pairs.  An absent metadata argument   *)
(* is the empty set: the store writes JSON.stringify(metadata || {}).      *)
(* Undefined is the value of a key that is set to undefined, and the       *)
(* absent documentId argument of search.                                   *)
(***************************************************************************)
Undefined == "undefined"

\* JSON.parse(JSON.stringify(metadata || {}) || '{}'): keys whose value is
\* undefined are not serialized
JsonRoundTrip(metadata) == {kv \in metadata : kv[2] # Undefined}

\* the truth value JavaScript gives a string argument that may be absent
Truthy(x) == x # Undefined /\ x # ""

\* metadata.heading: the heading a metadata carries, Undefined when it
\* carries none
HeadingOf(metadata) ==
    IF \E kv \in metadata : kv[1] = "heading" /\ kv[2] # Undefined
    THEN (CHOOSE kv \in metadata : kv[1] = "heading")[2]
    ELSE Undefined

(***************************************************************************)
(* DocumentChunker                                                         *)
(***************************************************************************)
\* `${documentId}-${index}`
ChunkId(documentId, index) == documentId \o "-" \o ToString(index)

createChunk(documentId, content, index, metadata) ==
    [id |-> ChunkId(documentId, index),
     documentId |-> documentId,
     content |-> Trim(content),
     index |-> index,
     metadata |-> metadata]

\* the iteration as it would be if a part that finds the buffer full were
\* cut to what maxChunkSize leaves room for after the overlap
chunkBySizeStepCuttingPart(opts, documentId, metadata, st, part) ==
    LET currentChunk == st[2]
        testChunk == currentChunk
                     \o (IF currentChunk # <<>> THEN opts.separator ELSE <<>>)
                     \o part
        full == Len(testChunk) > opts.maxChunkSize /\ currentChunk # <<>>
        overlapSize == Min(opts.chunkOverlap, Len(currentChunk))
        kept == IF full THEN SliceLast(currentChunk, overlapSize)
                ELSE currentChunk
        joined == kept \o (IF kept # <<>> THEN opts.separator ELSE <<>>) \o part
    IN  <<IF full
          THEN Append(st[1], createChunk(documentId, currentChunk, st[3], metadata))
          ELSE st[1],
          IF full THEN SubSeq(joined, 1, Min(Len(joined), opts.maxChunkSize))
          ELSE joined,
          IF full THEN st[3] + 1 ELSE st[3]>>

\* One iteration of the loop of chunkBySize over the parts; st is the loop
\* state <<chunks, currentChunk, chunkIndex>>
chunkBySizeStep(opts, documentId, metadata, st, part) ==
    LET currentChunk == st[2]
        testChunk == currentChunk
                     \o (IF currentChunk # <<>> THEN opts.separator ELSE <<>>)
                     \o part
        full == Len(testChunk) > opts.maxChunkSize /\ currentChunk # <<>>
        overlapSize == Min(opts.chunkOverlap, Len(currentChunk))
        kept == IF full THEN SliceLast(currentChunk, overlapSize)
                ELSE currentChunk
    IN  <<IF full
          THEN Append(st[1], createChunk(documentId, currentChunk, st[3], metadata))
          ELSE st[1],
          kept \o (IF kept # <<>> THEN opts.separator ELSE <<>>) \o part,
          IF full THEN st[3] + 1 ELSE st[3]>>

RECURSIVE chunkBySizeLoop(_, _, _, _, _)
chunkBySizeLoop(opts, documentId, metadata, st, parts) ==
    IF parts = <<>> THEN st
    ELSE chunkBySizeLoop(opts, documentId, metadata,
             chunkBySizeStep(opts, documentId, metadata, st, Head(parts)),
             Tail(parts))

chunkBySize(opts, documentId, text, metadata) ==
    IF Len(text) <= opts.maxChunkSize
    THEN <<createChunk(documentId, text, 0, metadata)>>
    ELSE LET st == chunkBySizeLoop(opts, documentId, metadata,
                       <<<<>>, <<>>, 0>>, Split(text, opts.separator))
         IN  IF Trim(st[2]) # <<>>
             THEN Append(st[1], createChunk(documentId, st[2], st[3], metadata))
             ELSE st[1]

\* the number of characters at the head of s that are in the set
RECURSIVE LeadingIn(_, _)
LeadingIn(s, set) ==
    IF s # <<>> /\ Head(s) \in set THEN 1 + LeadingIn(Tail(s), set) ELSE 0

\* the characters the . of a regular expression does not match
LineTerminators == {"\n", "\r"}

NoMatch == <<>>

\* line.match(/^(#{1,6})\s+(.+)$/): the second group, or NoMatch.  The
\* whitespace run is taken whole unless nothing would be left for the
\* group, which then is the last character of the run.
headingMatch(line) ==
    LET hashes == LeadingIn(line, {"#"})
        afterHashes == SubSeq(line, hashes + 1, Len(line))
        spaces == LeadingIn(afterHashes, WhiteSpace)
        rest == SubSeq(afterHashes, spaces + 1, Len(afterHashes))
        group == IF rest # <<>> THEN rest
                 ELSE IF spaces >= 2 THEN <<afterHashes[spaces]>>
                 ELSE NoMatch
    IN  IF /\ hashes \in 1..6
           /\ spaces >= 1
           /\ \A i \in DOMAIN group : group[i] \notin LineTerminators
        THEN group
        ELSE NoMatch

\* the string of a sequence of characters
RECURSIVE Str(_)
Str(s) == IF s = <<>> THEN "" ELSE Head(s) \o Str(Tail(s))

\* { ...metadata, heading: currentHeading || undefined }
WithHeading(metadata, currentHeading) ==
    {kv \in metadata : kv[1] # "heading"}
    \cup {<<"heading",
            IF currentHeading # <<>> THEN Str(currentHeading) ELSE Undefined>>}

\* parts.join(sep)
RECURSIVE Join(_, _)
Join(parts, sep) ==
    IF parts = <<>> THEN <<>>
    ELSE IF Len(parts) = 1 THEN parts[1]
    ELSE parts[1] \o sep \o Join(Tail(parts), sep)

\* the iteration as it would be were a buffer that a heading flushes
\* tagged with that heading
chunkWithStructureStepNewHeading(opts, documentId, metadata, st, line) ==
    LET currentChunk == st[2]
        heading == headingMatch(line)
        tag == IF heading # NoMatch THEN heading ELSE st[3]
        saved == Append(st[1],
                     createChunk(documentId, currentChunk, st[4],
                                 WithHeading(metadata, tag)))
        testLine == currentChunk \o <<"\n">> \o line
        lines == Split(currentChunk, <<"\n">>)
        overlapLines == SubSeq(lines, Len(lines) - Min(3, Len(lines)) + 1,
                               Len(lines))
    IN  IF heading # NoMatch
        THEN IF Trim(currentChunk) # <<>>
             THEN <<saved, line \o <<"\n">>, heading, st[4] + 1>>
             ELSE <<st[1], line \o <<"\n">>, heading, st[4]>>
        ELSE IF Len(testLine) > opts.maxChunkSize /\ Trim(currentChunk) # <<>>
             THEN <<saved, Join(overlapLines, <<"\n">>) \o <<"\n">> \o line,
                    st[3], st[4] + 1>>
             ELSE <<st[1], testLine, st[3], st[4]>>

\* One iteration of the loop of chunkWithStructure over the lines; st is
\* the loop state <<chunks, currentChunk, currentHeading, chunkIndex>>
chunkWithStructureStep(opts, documentId, metadata, st, line) ==
    LET currentChunk == st[2]
        heading == headingMatch(line)
        saved == Append(st[1],
                     createChunk(documentId, currentChunk, st[4],
                                 WithHeading(metadata, st[3])))
        testLine == currentChunk \o <<"\n">> \o line
        lines == Split(currentChunk, <<"\n">>)
        overlapLines == SubSeq(lines, Len(lines) - Min(3, Len(lines)) + 1,
                               Len(lines))
    IN  IF heading # NoMatch
        THEN IF Trim(currentChunk) # <<>>
             THEN <<saved, line \o <<"\n">>, heading, st[4] + 1>>
             ELSE <<st[1], line \o <<"\n">>, heading, st[4]>>
        ELSE IF Len(testLine) > opts.maxChunkSize /\ Trim(currentChunk) # <<>>
             THEN <<saved, Join(overlapLines, <<"\n">>) \o <<"\n">> \o line,
                    st[3], st[4] + 1>>
             ELSE <<st[1], testLine, st[3], st[4]>>

RECURSIVE chunkWithStructureLoop(_, _, _, _, _)
chunkWithStructureLoop(opts, documentId, metadata, st, lines) ==
    IF lines = <<>> THEN st
    ELSE chunkWithStructureLoop(opts, documentId, metadata,
             chunkWithStructureStep(opts, documentId, metadata, st, Head(lines)),
             Tail(lines))

chunkWithStructure(opts, documentId, text, metadata) ==
    LET st == chunkWithStructureLoop(opts, documentId, metadata,
                  <<<<>>, <<>>, <<>>, 0>>, Split(text, <<"\n">>))
    IN  IF Trim(st[2]) # <<>>
        THEN Append(st[1], createChunk(documentId, st[2], st[4],
                                       WithHeading(metadata, st[3])))
        ELSE st[1]

\* DocumentChunker.chunk
chunk(opts, documentId, text, metadata) ==
    IF opts.preserveStructure
    THEN chunkWithStructure(opts, documentId, NormalizeLineEndings(text), metadata)
    ELSE chunkBySize(opts, documentId, NormalizeLineEndings(text), metadata)

(***************************************************************************)
(* The database.  db.doc_chunks maps chunk_id to its row,                  *)
(* db.chunk_embeddings maps chunk_id to the stored vector, and             *)
(* db.chunk_embeddings_vec is the vec0 table the triggers maintain: its    *)
(* rowid is the rowid of the chunk_embeddings row, which the model names   *)
(* by that row's chunk_id.  db.embeddingTable says that chunk_embeddings   *)
(* (with, under sqlite-vec, the vec0 table and the triggers) exists.       *)
(* better-sqlite3 enforces foreign keys, so ON DELETE CASCADE acts.        *)
(***************************************************************************)
\* the store's dimensionality (1536 in the code, scaled down)
dimensions == 2

EmptyTable == [id \in {} |-> {}]

EmptyDb ==
    [doc_chunks |-> EmptyTable,
     chunk_embeddings |-> EmptyTable,
     chunk_embeddings_vec |-> EmptyTable,
     embeddingTable |-> FALSE]

DeleteRows(table, ids) == [id \in (DOMAIN table) \ ids |-> table[id]]

PutRow(table, id, row) ==
    [x \in (DOMAIN table) \cup {id} |-> IF x = id THEN row ELSE table[x]]

\* What a run of statements gives: whether one threw, its message, and the
\* database as the statements before it left it
Failure(msg, d) == [ok |-> FALSE, error |-> msg, db |-> d]
Success(d) == [ok |-> TRUE, error |-> "", db |-> d]

\* ensureVectorTable: CREATE TABLE chunk_embeddings (and the vec0 table and
\* its triggers) unless sqlite_master lists it
ensureVectorTable(d) == [d EXCEPT !.embeddingTable = TRUE]

\* chunk_embeddings_delete_trigger, for each deleted row
DeleteTrigger(d, ids) ==
    [d EXCEPT !.chunk_embeddings_vec = DeleteRows(@, ids)]

\* the deletion as it would be with foreign keys not enforced
CascadeDeleteOff(d, ids) == d

\* FOREIGN KEY (chunk_id) REFERENCES doc_chunks(chunk_id) ON DELETE CASCADE:
\* the embedding rows of the deleted chunks go, and their delete triggers run
CascadeDelete(d, ids) ==
    LET gone == ids \cap DOMAIN d.chunk_embeddings
    IN  DeleteTrigger([d EXCEPT !.chunk_embeddings = DeleteRows(@, gone)], gone)

IdsOfDocument(d, documentId) ==
    {id \in DOMAIN d.doc_chunks : d.doc_chunks[id].document_id = documentId}

\* deleteDocument as it would be with the DELETE left out
deleteDocumentSkipped(d, documentId) == d

\* deleteDocument as it would be without the WHERE clause
deleteDocumentEveryRow(d, documentId) ==
    CascadeDelete([d EXCEPT !.doc_chunks = EmptyTable], DOMAIN d.doc_chunks)

\* deleteDocument as it would be deleting the document's first chunk only
deleteDocumentFirstChunk(d, documentId) ==
    LET ids == IdsOfDocument(d, documentId) \cap {ChunkId(documentId, 0)}
    IN  CascadeDelete([d EXCEPT !.doc_chunks = DeleteRows(@, ids)], ids)

\* VectorStore.deleteDocument: DELETE FROM doc_chunks WHERE document_id = ?
deleteDocument(d, documentId) ==
    LET ids == IdsOfDocument(d, documentId)
    IN  CascadeDelete([d EXCEPT !.doc_chunks = DeleteRows(@, ids)], ids)

\* VectorStore.deleteChunk: DELETE FROM doc_chunks WHERE chunk_id = ?
deleteChunk(d, chunkId) ==
    LET ids == {chunkId} \cap DOMAIN d.doc_chunks
    IN  CascadeDelete([d EXCEPT !.doc_chunks = DeleteRows(@, ids)], ids)

\* insertChunk.run: INSERT OR REPLACE INTO doc_chunks.  REPLACE deletes the
\* row that holds the chunk_id, which cascades, and inserts the new one.
insertChunk(d, c) ==
    LET old == {c.id} \cap DOMAIN d.doc_chunks
        d1 == CascadeDelete([d EXCEPT !.doc_chunks = DeleteRows(@, old)], old)
    IN  [d1 EXCEPT !.doc_chunks =
            PutRow(@, c.id, [document_id |-> c.documentId,
                             content |-> c.content,
                             metadata |-> JsonRoundTrip(c.metadata)])]

\* insertEmbedding.run: INSERT OR REPLACE INTO chunk_embeddings, and under
\* sqlite-vec chunk_embeddings_insert_trigger, whose INSERT the vec0 table
\* FLOAT[dimensions] refuses for a vector of another length.  A row REPLACE
\* removes fires no delete trigger (recursive triggers are off).
insertEmbedding(d, vec, id, vector) ==
    IF vec /\ Len(vector) # dimensions
    THEN Failure("Dimension mismatch for inserted vector", d)
    ELSE Success([d EXCEPT
            !.chunk_embeddings = PutRow(@, id, vector),
            !.chunk_embeddings_vec = IF vec THEN PutRow(@, id, vector) ELSE @])

\* embeddings[i] of a JavaScript array: undefined past its end, and
\* new Float32Array(undefined) is the empty array
EmbeddingAt(embeddings, i) ==
    IF i <= Len(embeddings) THEN embeddings[i] ELSE <<>>

\* The loop of insertMany from row i on; the first failing statement ends it
RECURSIVE insertRows(_, _, _, _, _)
insertRows(d, vec, chunks, embeddings, i) ==
    IF i > Len(chunks) THEN Success(d)
    ELSE LET r == insertEmbedding(insertChunk(d, chunks[i]), vec,
                                  chunks[i].id, EmbeddingAt(embeddings, i))
         IN  IF r.ok
             THEN insertRows(r.db, vec, chunks, embeddings, i + 1)
             ELSE r

\* insertMany as it would be were the loop not wrapped in db.transaction
insertManyNoTransaction(d, vec, chunks, embeddings) ==
    insertRows(d, vec, chunks, embeddings, 1)

\* insertMany = db.transaction(...): the rows are written together, and an
\* exception rolls every write of the call back
insertMany(d, vec, chunks, embeddings) ==
    LET r == insertRows(d, vec, chunks, embeddings, 1)
    IN  IF r.ok THEN r ELSE [r EXCEPT !.db = d]

\* VectorStore.clear: two statements, each committed on its own; the second
\* names a table that exists only once ensureVectorTable has run
clear(d) ==
    LET d1 == CascadeDelete([d EXCEPT !.doc_chunks = EmptyTable],
                            DOMAIN d.doc_chunks)
    IN  IF d1.embeddingTable
        THEN Success(DeleteTrigger([d1 EXCEPT !.chunk_embeddings = EmptyTable],
                                   DOMAIN d1.chunk_embeddings))
        ELSE Failure("no such table: chunk_embeddings", d1)

\* VectorStore.listDocuments: the distinct document ids (ORDER BY fixes the
\* order of the list, so the set is the list)
listDocuments(d) == {d.doc_chunks[id].document_id : id \in DOMAIN d.doc_chunks}

RECURSIVE SumLengths(_, _)
SumLengths(d, ids) ==
    IF ids = {} THEN 0
    ELSE LET id == CHOOSE x \in ids : TRUE
         IN  Len(d.doc_chunks[id].content) + SumLengths(d, ids \ {id})

\* VectorStore.getDocumentStats: COUNT(*) and SUM(LENGTH(content)), the SUM
\* of no row being NULL, which ?? turns into 0
getDocumentStats(d, documentId) ==
    [chunkCount |-> Cardinality(IdsOfDocument(d, documentId)),
     totalChars |-> SumLengths(d, IdsOfDocument(d, documentId))]

(***************************************************************************)
(* Similarity.  A similarity is carried as the exact fraction num/den      *)
(* (den > 0) of sign(dot) * dot^2 over normA * normB, which orders as the  *)
(* cosine dot / (sqrt(normA) * sqrt(normB)) does; the vectors of the model *)
(* have small integer components, which Float32Array stores exactly.       *)
(***************************************************************************)
RECURSIVE DotFrom(_, _, _)
DotFrom(a, b, i) ==
    IF i > Len(a) THEN 0 ELSE a[i] * b[i] + DotFrom(a, b, i + 1)

Dot(a, b) == DotFrom(a, b, 1)

Zero == [num |-> 0, den |-> 1]

\* magnitude > 0 ? dotProduct / magnitude : 0 (the lengths being equal)
cosineSimilarity(a, b) ==
    LET dotProduct == Dot(a, b)
        normA == Dot(a, a)
        normB == Dot(b, b)
    IN  IF normA * normB > 0
        THEN [num |-> IF dotProduct >= 0 THEN dotProduct * dotProduct
                      ELSE 0 - dotProduct * dotProduct,
              den |-> normA * normB]
        ELSE Zero

\* What a call of a similarity function gives: a number, or the error thrown
Returned(value) == [ok |-> TRUE, error |-> "", value |-> value]
Thrown(msg) == [ok |-> FALSE, error |-> msg, value |-> Zero]

\* no similarity function has been called
NoSimilarityCall == [called |-> FALSE, of |-> "", a |-> <<>>, b |-> <<>>]

NoSimilarity == Returned(Zero)

\* VectorStore.cosineSimilarity with its test of the lengths
storeCosineSimilarity(a, b) ==
    IF Len(a) # Len(b) THEN Thrown("Vector dimensions must match")
    ELSE Returned(cosineSimilarity(a, b))

\* EmbeddingService.cosineSimilarity: dotProduct / (sqrt(normA) * sqrt(normB))
\* with no test of the magnitude.  The fraction has the denominator 0 when
\* a norm is 0: the quotient 0 / 0 of JavaScript, which is NaN.
embeddingCosineSimilarity(a, b) ==
    IF Len(a) # Len(b) THEN Thrown("Embedding dimensions must match")
    ELSE LET dotProduct == Dot(a, b)
             normA == Dot(a, a)
             normB == Dot(b, b)
         IN  Returned([num |-> IF dotProduct >= 0 THEN dotProduct * dotProduct
                               ELSE 0 - dotProduct * dotProduct,
                       den |-> normA * normB])

\* a >= b on similarities
SimGE(a, b) == a.num * b.den >= b.num * a.den

SimEq(a, b) == a.num * b.den = b.num * a.den

\* The orders a sort by descending similarity can leave the rows in: the
\* order of rows of equal similarity is the order SQLite returned them in,
\* which no ORDER BY fixes
RECURSIVE SortedOrders(_)
SortedOrders(rows) ==
    IF rows = {} THEN {<<>>}
    ELSE UNION {{<<r>> \o s : s \in SortedOrders(rows \ {r})} :
                  r \in {x \in rows :
                           \A y \in rows : SimGE(x.similarity, y.similarity)}}

\* results.slice(0, limit), LIMIT ?
Slice(s, limit) == SubSeq(s, 1, Min(limit, Len(s)))

\* a row of either search query as the result the caller gets
ResultRow(d, id, similarity) ==
    [chunkId |-> id,
     documentId |-> d.doc_chunks[id].document_id,
     content |-> d.doc_chunks[id].content,
     similarity |-> similarity,
     metadata |-> d.doc_chunks[id].metadata]

\* doc_chunks c JOIN chunk_embeddings e ON c.chunk_id = e.chunk_id
JoinedIds(d) == (DOMAIN d.doc_chunks) \cap (DOMAIN d.chunk_embeddings)

\* VectorStore.search after its await, without sqlite-vec: every joined row,
\* of the document when documentId is truthy, scored by cosineSimilarity
\* (which throws on vectors of different lengths), sorted and cut.
\* The set of the results the call can return.
searchFallback(d, queryEmbedding, limit, documentId) ==
    LET ids == {id \in JoinedIds(d) :
                  Truthy(documentId) => d.doc_chunks[id].document_id = documentId}
    IN  IF \E id \in ids : Len(d.chunk_embeddings[id]) # Len(queryEmbedding)
        THEN {[ok |-> FALSE, error |-> "Vector dimensions must match", rows |-> <<>>]}
        ELSE {[ok |-> TRUE, error |-> "", rows |-> Slice(s, limit)] :
                s \in SortedOrders(
                    {ResultRow(d, id, cosineSimilarity(queryEmbedding,
                                                       d.chunk_embeddings[id])) :
                        id \in ids})}

\* VectorStore.search after its await, with sqlite-vec: the vec0 table gives
\* the k = limit * 2 rows nearest to the query by cosine distance, whatever
\* their document; the joins and the document condition apply to those, and
\* LIMIT cuts them.  similarity = 1 - distance.
searchSqliteVec(d, queryEmbedding, limit, documentId) ==
    IF Len(queryEmbedding) # dimensions
    THEN {[ok |-> FALSE, error |-> "Dimension mismatch for query vector",
           rows |-> <<>>]}
    ELSE LET knn == {Slice(s, limit * 2) :
                        s \in SortedOrders(
                            {[rowid |-> id,
                              similarity |-> cosineSimilarity(queryEmbedding,
                                                d.chunk_embeddings_vec[id])] :
                                id \in DOMAIN d.chunk_embeddings_vec})}
             Joined(r) == /\ r.rowid \in JoinedIds(d)
                          /\ Truthy(documentId) =>
                                d.doc_chunks[r.rowid].document_id = documentId
             Row(r) == ResultRow(d, r.rowid, r.similarity)
         IN  {[ok |-> TRUE, error |-> "",
               rows |-> LET kept == SelectSeq(near, Joined)
                        IN  Slice([i \in DOMAIN kept |-> Row(kept[i])], limit)] :
                near \in knn}

\* what getChunk returns for a chunk_id that has no row
Null == [chunkId |-> Undefined]

\* VectorStore.getChunk: the row of the chunk_id, with similarity 1.0
getChunk(d, chunkId) ==
    IF chunkId \in DOMAIN d.doc_chunks
    THEN ResultRow(d, chunkId, [num |-> 1, den |-> 1])
    ELSE Null

\* VectorStore.search after its await
search(d, vec, queryEmbedding, limit, documentId) ==
    IF vec THEN searchSqliteVec(d, queryEmbedding, limit, documentId)
    ELSE searchFallback(d, queryEmbedding, limit, documentId)

\* The contextParts of retrieve from result i on, showScores having its
\* default: for each result the "[Source i (similarity: ...)]" line, the
\* content, the "(from section: ...)" line when the metadata has a heading,
\* and an empty line.  The model keeps the list of the parts and not the
\* string contextParts.join('\n'), which is empty exactly when the list is.
RECURSIVE contextParts(_, _)
contextParts(results, i) ==
    IF i > Len(results) THEN <<>>
    ELSE <<[source |-> i, similarity |-> results[i].similarity],
           [content |-> results[i].content]>>
         \o (IF Truthy(HeadingOf(results[i].metadata))
             THEN <<[section |-> HeadingOf(results[i].metadata)]>>
             ELSE <<>>)
         \o <<[content |-> <<>>]>>
         \o contextParts(results, i + 1)

\* retrieve as it would be counting the candidates search returned
retrieveCountingCandidates(d, vec, queryEmbedding, maxResults, minSimilarity, documentId) ==
    LET AtLeast(r) == SimGE(r.similarity, minSimilarity)
    IN  {IF got.ok
         THEN [ok |-> TRUE, error |-> "",
               rows |-> Slice(SelectSeq(got.rows, AtLeast), maxResults),
               context |-> contextParts(
                   Slice(SelectSeq(got.rows, AtLeast), maxResults), 1),
               chunkCount |-> Len(got.rows)]
         ELSE [ok |-> FALSE, error |-> got.error, rows |-> <<>>,
               context |-> <<>>, chunkCount |-> 0] :
            got \in search(d, vec, queryEmbedding, maxResults * 2, documentId)}

\* RAGService.retrieve after its await: search for maxResults * 2 results,
\* drop those under minSimilarity, keep the first maxResults
retrieve(d, vec, queryEmbedding, maxResults, minSimilarity, documentId) ==
    LET AtLeast(r) == SimGE(r.similarity, minSimilarity)
    IN  {IF got.ok
         THEN LET results == Slice(SelectSeq(got.rows, AtLeast), maxResults)
              IN  [ok |-> TRUE, error |-> "", rows |-> results,
                   context |-> contextParts(results, 1),
                   chunkCount |-> Len(results)]
         ELSE [ok |-> FALSE, error |-> got.error, rows |-> <<>>,
               context |-> <<>>, chunkCount |-> 0] :
            got \in search(d, vec, queryEmbedding, maxResults * 2, documentId)}

(***************************************************************************)
(* The callers and the embedding generator.                                *)
(***************************************************************************)
\* document ids; the empty string is one a caller can pass
Docs == {"", "d"}

\* the documentId argument of search and retrieve
DocFilters == Docs \cup {Undefined}

\* the (content, metadata) arguments of indexDocument: one chunk, two chunks
\* (the second being the overlap and the second paragraph), and a blank text
\* longer than maxChunkSize, which gives no chunk
Inputs ==
    <<[text |-> <<"a", "b">>, metadata |-> {}],
      [text |-> <<"a", "a", "\n", "\n", "b", "b">>,
       metadata |-> {<<"filename", "f">>}],
      [text |-> <<" ", " ", " ", " ", " ">>, metadata |-> {}]>>

\* the vectors a generator that keeps its contract returns: of the store's
\* dimensionality
Vectors == {v \in [1..dimensions -> {0, 1}] : Dot(v, v) = 1}

UnitVector == [i \in 1..dimensions |-> IF i = 1 THEN 1 ELSE 0]

\* a vector of another dimensionality
ShortVector == <<1>>

\* the minSimilarity option: 0.0, the default, and a threshold of about 0.7
MinSimilarities == {Zero, [num |-> 1, den |-> 2]}

\* What embedBatch resolves to for n texts: n vectors of the store's
\* dimensionality from a generator that keeps its contract; one that does
\* not may return a vector too few or a vector of another length
embedBatchResults(e, n) ==
    IF e = "contract"
    THEN [1..n -> Vectors]
    ELSE [1..n -> {UnitVector}]
         \cup [1..(n - 1) -> {UnitVector}]
         \cup {Append(v, ShortVector) : v \in [1..(n - 1) -> {UnitVector}]}

\* What embed resolves to
embedResults(e) ==
    IF e = "contract" THEN Vectors ELSE {UnitVector, ShortVector}

\* The outcome of the step last taken: the operation, whether it returned or
\* threw, what identifies the call, and n, the number of rows the step
\* deleted (deleteDocument, and indexDocument up to its await), wrote
\* (indexDocument after its await) or returned (search, retrieve)
Outcome(op, ok, error, documentId, input, raced, n) ==
    [op |-> op, ok |-> ok, error |-> error, documentId |-> documentId,
     input |-> input, raced |-> raced, n |-> n]

\* the first turn as it would be if indexDocument did not delete first
indexDocumentKeepsRows(d, documentId, chunks) ==
    IF chunks = <<>> THEN d ELSE ensureVectorTable(d)

\* the first turn of indexDocument on the database: deleteDocument, and,
\* unless there is no chunk, the ensureVectorTable of addChunks
indexDocumentBegin(d, documentId, chunks) ==
    IF chunks = <<>> THEN deleteDocument(d, documentId)
    ELSE ensureVectorTable(deleteDocument(d, documentId))

NotOpen == "The database connection is not open"

\* the options the service's DocumentChunker is constructed with: the
\* defaults of the code scaled down to the texts of the model
chunker ==
    [maxChunkSize |-> 4, chunkOverlap |-> 1, separator |-> <<"\n", "\n">>,
     preserveStructure |-> FALSE]

\* this.chunker.chunk(documentId, content, metadata), tabulated
Chunks ==
    [documentId \in Docs |->
        [input \in DOMAIN Inputs |->
            chunk(chunker, documentId, Inputs[input].text,
                  Inputs[input].metadata)]]

ChunksOf(c) == Chunks[c.documentId][c.input]

\* indexDocument run with no step of another call between its two turns
indexDocumentAlone(d, vec, documentId, input, embeddings) ==
    LET chunks == Chunks[documentId][input]
        d1 == indexDocumentBegin(d, documentId, chunks)
    IN  IF chunks = <<>> THEN d1 ELSE insertMany(d1, vec, chunks, embeddings).db

(***************************************************************************)
(* RAGService.indexDocument up to the await in addChunks.  A suspended     *)
(* call is the record of its arguments; raced says that another call for   *)
(* the same document was suspended at some time while this one was.        *)
(***************************************************************************)
IndexDocument(documentId, input) ==
    /\ Cardinality(calls) < MaxInFlight
    /\ ~\E c \in calls : c.documentId = documentId /\ c.input = input
    /\ UNCHANGED <<usingSqliteVec, open, initialized, pending, env, chunkerVars,
                 similarityVars>>
    /\ IF ~initialized
       THEN /\ result' = Outcome("indexDocument", FALSE,
                                 "RAG service is not initialized",
                                 documentId, input, FALSE, 0)
            /\ UNCHANGED <<db, calls>>
       ELSE LET chunks == Chunks[documentId][input]
                raced == \E c \in calls : c.documentId = documentId
                replaced == Cardinality(IdsOfDocument(db, documentId))
            IN  /\ db' = indexDocumentBegin(db, documentId, chunks)
                /\ IF chunks = <<>>
                   THEN /\ result' = Outcome("indexDocument", TRUE, "",
                                             documentId, input, FALSE, 0)
                        /\ UNCHANGED calls
                   ELSE /\ calls' =
                             {IF c.documentId = documentId
                              THEN [c EXCEPT !.raced = TRUE] ELSE c : c \in calls}
                             \cup {[documentId |-> documentId, input |-> input,
                                    raced |-> raced]}
                        /\ result' = Outcome("indexDocument:await", TRUE, "",
                                             documentId, input, raced, replaced)

\* the resumption as it would be if a deleteDocument or a clear that ran
\* during the await cancelled the call: it returns and writes nothing
AddChunksResumeCancelled(c) ==
    /\ c \in calls
    /\ calls' = calls \ {c}
    /\ UNCHANGED <<usingSqliteVec, open, initialized, pending, env, chunkerVars,
                 similarityVars>>
    /\ \E embeddings \in embedBatchResults(env, Len(ChunksOf(c))) :
         LET cancelled == result.op \in {"deleteDocument", "clear"}
             r == IF ~open THEN Failure(NotOpen, db)
                  ELSE IF cancelled THEN Success(db)
                  ELSE insertMany(db, usingSqliteVec, ChunksOf(c), embeddings)
         IN  /\ db' = r.db
             /\ result' = Outcome("indexDocument", r.ok, r.error,
                                  c.documentId, c.input, c.raced,
                                  IF r.ok /\ ~cancelled THEN Len(ChunksOf(c))
                                  ELSE 0)

\* embedBatch resolves and addChunks runs insertMany
AddChunksResume(c) ==
    /\ c \in calls
    /\ calls' = calls \ {c}
    /\ UNCHANGED <<usingSqliteVec, open, initialized, pending, env, chunkerVars,
                 similarityVars>>
    /\ \E embeddings \in embedBatchResults(env, Len(ChunksOf(c))) :
         LET r == IF open
                  THEN insertMany(db, usingSqliteVec, ChunksOf(c), embeddings)
                  ELSE Failure(NotOpen, db)
         IN  /\ db' = r.db
             /\ result' = Outcome("indexDocument", r.ok, r.error,
                                  c.documentId, c.input, c.raced,
                                  IF r.ok THEN Len(ChunksOf(c)) ELSE 0)

\* embedBatch throws: addChunks, and with it indexDocument, rejects
AddChunksReject(c) ==
    /\ c \in calls
    /\ calls' = calls \ {c}
    /\ result' = Outcome("indexDocument", FALSE,
                         "Batch embedding generation failed",
                         c.documentId, c.input, c.raced, 0)
    /\ UNCHANGED <<db, usingSqliteVec, open, initialized, pending, env, chunkerVars,
                 similarityVars>>

\* RAGService.deleteDocument
DeleteDocument(documentId) ==
    /\ UNCHANGED <<usingSqliteVec, open, initialized, calls, pending, env, chunkerVars,
                 similarityVars>>
    /\ IF open
       THEN /\ db' = deleteDocument(db, documentId)
            /\ result' = Outcome("deleteDocument", TRUE, "", documentId, 0, FALSE,
                                 Cardinality(IdsOfDocument(db, documentId)))
       ELSE /\ UNCHANGED db
            /\ result' = Outcome("deleteDocument", FALSE, NotOpen,
                                 documentId, 0, FALSE, 0)

\* RAGService.clear
Clear ==
    /\ UNCHANGED <<usingSqliteVec, open, initialized, calls, pending, env, chunkerVars,
                 similarityVars>>
    /\ IF open
       THEN LET r == clear(db)
            IN  /\ db' = r.db
                /\ result' = Outcome("clear", r.ok, r.error, Undefined, 0, FALSE, 0)
       ELSE /\ UNCHANGED db
            /\ result' = Outcome("clear", FALSE, NotOpen, Undefined, 0, FALSE, 0)

\* VectorStore.search (op = "search") and RAGService.retrieve (op =
\* "retrieve") up to the await of the query embedding: ensureVectorTable.
\* The arguments are read after the await, where the model draws them.
Search(op) ==
    /\ pending = "none"
    /\ UNCHANGED <<usingSqliteVec, open, initialized, calls, env, chunkerVars,
                 similarityVars>>
    /\ IF op = "retrieve" /\ ~initialized
       THEN /\ result' = Outcome(op, FALSE, "RAG service is not initialized",
                                 Undefined, 0, FALSE, 0)
            /\ UNCHANGED <<db, pending>>
       ELSE IF ~open
       THEN /\ result' = Outcome(op, FALSE, NotOpen, Undefined, 0, FALSE, 0)
            /\ UNCHANGED <<db, pending>>
       ELSE /\ db' = ensureVectorTable(db)
            /\ pending' = op
            /\ result' = Outcome(op \o ":await", TRUE, "", Undefined, 0, FALSE, 0)

\* embed resolves: the query runs and the call returns its results
SearchResume ==
    /\ pending # "none"
    /\ pending' = "none"
    /\ UNCHANGED <<db, usingSqliteVec, open, initialized, calls, env, chunkerVars,
                 similarityVars>>
    /\ \E queryEmbedding \in embedResults(env), limit \in 1..MaxLimit,
          documentId \in DocFilters,
          minSimilarity \in IF pending = "retrieve" THEN MinSimilarities
                            ELSE {Zero} :
         \E r \in IF ~open
                   THEN {[ok |-> FALSE, error |-> NotOpen, rows |-> <<>>]}
                   ELSE IF pending = "search"
                   THEN search(db, usingSqliteVec, queryEmbedding, limit, documentId)
                   ELSE retrieve(db, usingSqliteVec, queryEmbedding, limit,
                                 minSimilarity, documentId) :
            result' = Outcome(pending, r.ok, r.error, Undefined, 0, FALSE,
                              Len(r.rows))

\* embed throws: search, and with it retrieve, rejects
SearchReject ==
    /\ pending # "none"
    /\ pending' = "none"
    /\ result' = Outcome(pending, FALSE, "Embedding generation failed",
                         Undefined, 0, FALSE, 0)
    /\ UNCHANGED <<db, usingSqliteVec, open, initialized, calls, env, chunkerVars,
                 similarityVars>>

\* the chunk_id arguments of getChunk and deleteChunk: the ids the texts of
\* the model give chunks, and one past them
ChunkIds == {ChunkId(documentId, k) : documentId \in Docs, k \in 0..2}

\* RAGService.listDocuments; n is the number of documents listed
ListDocuments ==
    /\ UNCHANGED <<db, usingSqliteVec, open, initialized, calls, pending, env, chunkerVars,
                 similarityVars>>
    /\ result' = IF open
                 THEN Outcome("listDocuments", TRUE, "", Undefined, 0, FALSE,
                              Cardinality(listDocuments(db)))
                 ELSE Outcome("listDocuments", FALSE, NotOpen, Undefined, 0,
                              FALSE, 0)

\* RAGService.getDocumentStats; n is the chunkCount returned
GetDocumentStats(documentId) ==
    /\ UNCHANGED <<db, usingSqliteVec, open, initialized, calls, pending, env, chunkerVars,
                 similarityVars>>
    /\ result' = IF open
                 THEN Outcome("getDocumentStats", TRUE, "", Undefined, 0, FALSE,
                              getDocumentStats(db, documentId).chunkCount)
                 ELSE Outcome("getDocumentStats", FALSE, NotOpen, Undefined, 0,
                              FALSE, 0)

\* RAGService.getChunk; n is 1 for a chunk and 0 for null
GetChunk(chunkId) ==
    /\ UNCHANGED <<db, usingSqliteVec, open, initialized, calls, pending, env, chunkerVars,
                 similarityVars>>
    /\ result' = IF open
                 THEN Outcome("getChunk", TRUE, "", Undefined, 0, FALSE,
                              IF getChunk(db, chunkId) = Null THEN 0 ELSE 1)
                 ELSE Outcome("getChunk", FALSE, NotOpen, Undefined, 0, FALSE, 0)

\* VectorStore.deleteChunk, which RAGService does not call: a caller that
\* holds the VectorStore can.  n is the number of rows deleted.
DeleteChunk(chunkId) ==
    /\ UNCHANGED <<usingSqliteVec, open, initialized, calls, pending, env, chunkerVars,
                 similarityVars>>
    /\ IF open
       THEN /\ db' = deleteChunk(db, chunkId)
            /\ result' = Outcome("deleteChunk", TRUE, "", Undefined, 0, FALSE,
                                 Cardinality({chunkId} \cap DOMAIN db.doc_chunks))
       ELSE /\ UNCHANGED db
            /\ result' = Outcome("deleteChunk", FALSE, NotOpen, Undefined, 0,
                                 FALSE, 0)

\* close as it would be without this.vectorStore.close()
CloseServiceOnly ==
    /\ initialized' = FALSE
    /\ result' = Outcome("close", TRUE, "", Undefined, 0, FALSE, 0)
    /\ UNCHANGED <<db, usingSqliteVec, open, calls, pending, env, chunkerVars,
                 similarityVars>>

\* RAGService.close: db.close(), which a closed connection accepts
Close ==
    /\ open' = FALSE
    /\ initialized' = FALSE
    /\ result' = Outcome("close", TRUE, "", Undefined, 0, FALSE, 0)
    /\ UNCHANGED <<db, usingSqliteVec, calls, pending, env, chunkerVars,
                 similarityVars>>

(***************************************************************************)
(* A DocumentChunker used by itself: new DocumentChunker(options), and one *)
(* call of chunk, the chunker keeping no state from call to call.          *)
(***************************************************************************)
NoCall == [called |-> FALSE, documentId |-> "", text |-> <<>>, metadata |-> {}]

\* the characters of the enumerated texts
Alphabet == {"a", " ", "\n", "\r", "#"}

Repeat(c, n) == [i \in 1..n |-> c]

\* the example of the specification: paragraphs of 14, 14 and 16 characters
\* chunked with maxChunkSize 20 and chunkOverlap 5
ExampleText ==
    Repeat("a", 14) \o <<"\n", "\n">> \o Repeat("b", 14) \o <<"\n", "\n">>
    \o Repeat("c", 16)

ExampleOptions ==
    [maxChunkSize |-> 20, chunkOverlap |-> 5, separator |-> <<"\n", "\n">>,
     preserveStructure |-> FALSE]

\* the lines of the texts put together from whole lines: headings of two
\* levels, plain lines, an empty line, and a line that only looks like a
\* heading
Lines ==
    {<<"#", " ", "a">>, <<"#", "#", " ", "b", " ">>, <<"c">>, <<"d", " ", "d">>,
     <<>>, <<"#", "e">>}

LineTexts ==
    {Join(ls, <<"\n">>) : ls \in UNION {[1..n -> Lines] : n \in 1..MaxLines}}

Texts ==
    UNION {[1..n -> Alphabet] : n \in 0..MaxTextLen}
    \cup LineTexts \cup {ExampleText}

\* the options of the constructor: a maxChunkSize that makes the texts
\* split and one every enumerated text fits in
ChunkerOptions ==
    {[maxChunkSize |-> m, chunkOverlap |-> o, separator |-> s,
      preserveStructure |-> p] :
        m \in {3, MaxTextLen + 1}, o \in 0..2,
        s \in {<<"\n">>, <<"\n", "\n">>}, p \in BOOLEAN}
    \cup {ExampleOptions}

\* chunker.chunk("d", text)
ChunkText(text) ==
    /\ ~chunkArgs.called
    /\ chunkArgs' = [called |-> TRUE, documentId |-> "d", text |-> text,
                     metadata |-> {}]
    /\ chunkResult' = chunk(chunkOptions, "d", text, {})
    /\ UNCHANGED <<db, usingSqliteVec, open, initialized, calls, pending,
                   result, env, chunkOptions, similarityVars>>

InitChunker ==
    /\ db = EmptyDb
    /\ usingSqliteVec = FALSE
    /\ open = TRUE
    /\ initialized = TRUE
    /\ calls = {}
    /\ pending = "none"
    /\ result = Outcome("new", TRUE, "", Undefined, 0, FALSE, 0)
    /\ env = "contract"
    /\ chunkOptions \in ChunkerOptions
    /\ chunkArgs = NoCall
    /\ chunkResult = <<>>
    /\ similarityArgs = NoSimilarityCall
    /\ similarityResult = NoSimilarity

NextChunker == \E text \in Texts : ChunkText(text)

SpecChunker == InitChunker /\ [][NextChunker]_vars

(***************************************************************************)
(* The two cosineSimilarity functions called by themselves, on vectors     *)
(* with components -1, 0 and 1: the zero vector is one of them.            *)
(***************************************************************************)
AnyVectors == [1..dimensions -> {0 - 1, 0, 1}] \cup {ShortVector}

CosineSimilarity(of, a, b) ==
    /\ ~similarityArgs.called
    /\ similarityArgs' = [called |-> TRUE, of |-> of, a |-> a, b |-> b]
    /\ similarityResult' = IF of = "VectorStore"
                           THEN storeCosineSimilarity(a, b)
                           ELSE embeddingCosineSimilarity(a, b)
    /\ UNCHANGED <<db, usingSqliteVec, open, initialized, calls, pending,
                   result, env, chunkerVars>>

InitSimilarity ==
    /\ db = EmptyDb
    /\ usingSqliteVec = FALSE
    /\ open = TRUE
    /\ initialized = TRUE
    /\ calls = {}
    /\ pending = "none"
    /\ result = Outcome("new", TRUE, "", Undefined, 0, FALSE, 0)
    /\ env = "contract"
    /\ chunkOptions = chunker
    /\ chunkArgs = NoCall
    /\ chunkResult = <<>>
    /\ similarityArgs = NoSimilarityCall
    /\ similarityResult = NoSimilarity

NextSimilarity ==
    \E of \in {"VectorStore", "EmbeddingService"}, a \in AnyVectors,
       b \in AnyVectors : CosineSimilarity(of, a, b)

SpecSimilarity == InitSimilarity /\ [][NextSimilarity]_vars

(***************************************************************************)
(* The state after new RAGService(options) on a new database file.  The    *)
(* sqlite-vec extension loads or does not.                                 *)
(***************************************************************************)
InitWith(e) ==
    /\ db = EmptyDb
    /\ usingSqliteVec \in BOOLEAN
    /\ open = TRUE
    /\ initialized = TRUE
    /\ calls = {}
    /\ pending = "none"
    /\ result = Outcome("new", TRUE, "", Undefined, 0, FALSE, 0)
    /\ env = e
    /\ chunkOptions = chunker
    /\ chunkArgs = NoCall
    /\ chunkResult = <<>>
    /\ similarityArgs = NoSimilarityCall
    /\ similarityResult = NoSimilarity

Init == InitWith("contract")

InitFaulty == InitWith("faulty")

Next ==
    \/ \E documentId \in Docs, input \in DOMAIN Inputs :
          IndexDocument(documentId, input)
    \/ \E c \in calls : AddChunksResume(c)
    \/ \E c \in calls : AddChunksReject(c)
    \/ \E documentId \in Docs : DeleteDocument(documentId)
    \/ Clear
    \/ \E op \in {"search", "retrieve"} : Search(op)
    \/ SearchResume
    \/ SearchReject
    \/ ListDocuments
    \/ \E documentId \in Docs : GetDocumentStats(documentId)
    \/ \E chunkId \in ChunkIds : GetChunk(chunkId)
    \/ Close

\* the operations of RAGService and, on its VectorStore, deleteChunk
NextStore ==
    \/ Next
    \/ \E chunkId \in ChunkIds : DeleteChunk(chunkId)

\* the embedding generator keeps its contract
Spec == Init /\ [][Next]_vars

\* the embedding generator may return too few vectors or a vector of
\* another dimensionality
SpecFaulty == InitFaulty /\ [][Next]_vars

\* the VectorStore is also used directly
SpecStore == Init /\ [][NextStore]_vars

(***************************************************************************)
(* What the claims speak of.                                               *)
(***************************************************************************)
\* the chunk rows stored for a document
DocRows(d, documentId) ==
    [id \in IdsOfDocument(d, documentId) |-> d.doc_chunks[id]]

\* the rows addChunks writes for a list of chunks
RowsOfChunks(chunks) ==
    [id \in {chunks[i].id : i \in DOMAIN chunks} |->
        LET c == chunks[CHOOSE i \in DOMAIN chunks : chunks[i].id = id]
        IN  [document_id |-> c.documentId, content |-> c.content,
             metadata |-> JsonRoundTrip(c.metadata)]]

\* the ids a document's chunks can have with the texts of the model
IdsNamedFor(documentId) == {ChunkId(documentId, k) : k \in 0..5}

\* the embedding rows, and the vec0 rows, whose chunk_id is one of a document
DocEmbeddings(d, documentId) ==
    [id \in (DOMAIN d.chunk_embeddings) \cap IdsNamedFor(documentId) |->
        d.chunk_embeddings[id]]

DocVecRows(d, documentId) ==
    [id \in (DOMAIN d.chunk_embeddings_vec) \cap IdsNamedFor(documentId) |->
        d.chunk_embeddings_vec[id]]

\* the store holds for the document the rows of these chunks, an embedding
\* for each, and nothing else
StoredExactly(d, vec, documentId, chunks) ==
    /\ DocRows(d, documentId) = RowsOfChunks(chunks)
    /\ DOMAIN DocEmbeddings(d, documentId) = DOMAIN RowsOfChunks(chunks)
    /\ vec => DOMAIN DocVecRows(d, documentId) = DOMAIN RowsOfChunks(chunks)

\* what listDocuments, getDocumentStats and getChunk show of the store
Observable(d) ==
    [chunks |-> d.doc_chunks,
     documents |-> listDocuments(d),
     stats |-> [x \in Docs |-> getDocumentStats(d, x)]]

IndexReturned == result.op = "indexDocument" /\ result.ok

ResultChunks == Chunks[result.documentId][result.input]

InFlightFor(documentId) == \E c \in calls : c.documentId = documentId

\* C1: when indexDocument(X, text) returns and no other indexDocument for X
\* was suspended while it ran, the store holds for X exactly the rows and
\* embeddings of chunk(X, text); and run alone from any reachable store,
\* whatever X held there, indexDocument(X, text) leaves exactly those.
C1_ReindexReplaces ==
    /\ (IndexReturned /\ ~result.raced) =>
          StoredExactly(db, usingSqliteVec, result.documentId, ResultChunks)
    /\ \A documentId \in Docs, input \in DOMAIN Inputs :
          LET chunks == Chunks[documentId][input]
          IN  \A embeddings \in embedBatchResults(env, Len(chunks)) :
                StoredExactly(indexDocumentAlone(db, usingSqliteVec, documentId,
                                                 input, embeddings),
                              usingSqliteVec, documentId, chunks)

\* an indexDocument of the one-chunk text has returned, the other document
\* holding two chunks
C1_Witness ==
    /\ IndexReturned /\ ~result.raced /\ result.n = 1
    /\ \E other \in Docs \ {result.documentId} :
          Cardinality(IdsOfDocument(db, other)) = 2

\* C2: once two overlapping indexDocument calls for one document have both
\* returned, the store holds for it exactly the chunks of the call that
\* wrote last.
C2_LastWriterWins ==
    (IndexReturned /\ result.raced /\ ~InFlightFor(result.documentId)) =>
        DocRows(db, result.documentId) = RowsOfChunks(ResultChunks)

\* C3: a step of indexDocument(X, ...) changes no chunk row, embedding row or
\* vec0 row of another document, and a call for X that returns, no other
\* call for X having overlapped it, leaves exactly chunk(X, text) under X,
\* whatever calls for other documents ran meanwhile.
C3_DisjointDocuments ==
    [][(result'.op \in {"indexDocument", "indexDocument:await"}) =>
          /\ \A other \in Docs \ {result'.documentId} :
                /\ DocRows(db', other) = DocRows(db, other)
                /\ DocEmbeddings(db', other) = DocEmbeddings(db, other)
                /\ DocVecRows(db', other) = DocVecRows(db, other)
          /\ (result'.op = "indexDocument" /\ result'.ok /\ ~result'.raced) =>
                DocRows(db', result'.documentId) =
                    RowsOfChunks(Chunks[result'.documentId][result'.input])]_vars

\* an indexDocument has written its chunks while a call for another
\* document, whose chunks are stored, is suspended
C3_Witness ==
    /\ IndexReturned /\ result.n > 0
    /\ \E c \in calls : c.documentId # result.documentId
    /\ listDocuments(db) = {result.documentId}

\* C4: when the embedding call fails, indexDocument(X, ...) fails: that step
\* writes nothing, and, no other call for X having overlapped, no chunk of X
\* is stored.
C4_EmbeddingFailure ==
    [][(/\ result'.op = "indexDocument"
        /\ result'.error = "Batch embedding generation failed") =>
          /\ ~result'.ok
          /\ db' = db
          /\ ~result'.raced => IdsOfDocument(db', result'.documentId) = {}]_vars

\* an indexDocument has failed on its embedding call while the other
\* document holds chunks
C4_Witness ==
    /\ result.op = "indexDocument" /\ ~result.ok /\ ~result.raced
    /\ result.error = "Batch embedding generation failed"
    /\ listDocuments(db) # {}

\* C5: the step in which addChunks ends either writes, for every chunk of
\* the batch, its chunk row and an embedding row, and changes no other row,
\* or leaves the three tables as they were.
C5_AddChunksAtomic ==
    [][\A c \in calls :
          (/\ c \notin calls'
           /\ result'.op = "indexDocument"
           /\ result'.documentId = c.documentId /\ result'.input = c.input) =>
          LET rows == RowsOfChunks(ChunksOf(c))
          IN  IF result'.ok
              THEN /\ \A id \in DOMAIN rows :
                        /\ id \in DOMAIN db'.doc_chunks
                        /\ db'.doc_chunks[id] = rows[id]
                        /\ id \in DOMAIN db'.chunk_embeddings
                   /\ DeleteRows(db'.doc_chunks, DOMAIN rows)
                        = DeleteRows(db.doc_chunks, DOMAIN rows)
                   /\ DeleteRows(db'.chunk_embeddings, DOMAIN rows)
                        = DeleteRows(db.chunk_embeddings, DOMAIN rows)
              ELSE /\ db'.doc_chunks = db.doc_chunks
                   /\ db'.chunk_embeddings = db.chunk_embeddings
                   /\ db'.chunk_embeddings_vec = db.chunk_embeddings_vec]_vars

\* under sqlite-vec a batch of two chunks has failed on a vector the vec0
\* table refuses (the second, the generator's vectors being what they are)
C5_Witness ==
    /\ result.op = "indexDocument" /\ ~result.ok
    /\ result.error = "Dimension mismatch for inserted vector"
    /\ Len(ResultChunks) = 2

\* C6: from a store that holds for X the rows indexDocument(X, text) writes,
\* indexDocument(X, text) again leaves what the store shows (the chunk ids,
\* their number, their content, listDocuments, getDocumentStats) as it was.
C6_IdempotentReindex ==
    \A documentId \in Docs, input \in DOMAIN Inputs :
        LET chunks == Chunks[documentId][input]
        IN  DocRows(db, documentId) = RowsOfChunks(chunks) =>
              \A embeddings \in embedBatchResults(env, Len(chunks)) :
                 Observable(indexDocumentAlone(db, usingSqliteVec, documentId,
                                               input, embeddings))
                    = Observable(db)

\* indexDocument has returned for a document with two chunks, and the other
\* document holds chunks too
C6_Witness ==
    /\ IndexReturned /\ ~result.raced /\ result.n = 2
    /\ DocRows(db, result.documentId) = RowsOfChunks(ResultChunks)
    /\ listDocuments(db) = Docs

\* the chunk ids search is to rank: every stored chunk, or those of the
\* document when one is given
Candidates(d, documentId) ==
    {id \in DOMAIN d.doc_chunks :
        documentId # Undefined => d.doc_chunks[id].document_id = documentId}

\* the rows are in order of non-increasing similarity
Descending(rows) ==
    \A i, j \in DOMAIN rows :
        i < j => SimGE(rows[i].similarity, rows[j].similarity)

\* the similarity the store's cosineSimilarity gives a stored chunk
StoredSimilarity(d, queryEmbedding, id) ==
    cosineSimilarity(queryEmbedding, d.chunk_embeddings[id])

\* C7: search(query, k, documentId?) returns exactly min(k, n) results, n
\* being the number of stored chunks (of the document, when one is given):
\* the min(k, n) most similar of them, most similar first.  Stated for the
\* documentId arguments JavaScript takes as given, and for none.
C7_SearchTopK ==
    \A queryEmbedding \in Vectors, limit \in 1..MaxLimit,
       documentId \in {x \in DocFilters : x = Undefined \/ Truthy(x)} :
        \A r \in search(db, usingSqliteVec, queryEmbedding, limit, documentId) :
            LET candidates == Candidates(db, documentId)
                returned == {r.rows[i].chunkId : i \in DOMAIN r.rows}
            IN  /\ r.ok
                /\ Len(r.rows) = Min(limit, Cardinality(candidates))
                /\ Cardinality(returned) = Len(r.rows)
                /\ returned \subseteq candidates
                /\ Descending(r.rows)
                /\ \A i \in DOMAIN r.rows, id \in candidates \ returned :
                      SimGE(r.rows[i].similarity,
                            StoredSimilarity(db, queryEmbedding, id))

\* C8: on the same stored chunks, for the same query vector, limit and
\* documentId, the sqlite-vec query and the fallback scan can return the
\* same results: the same rows in the same order, up to the order of rows
\* of equal similarity.
C8_BackendsAgree ==
    usingSqliteVec =>
        \A queryEmbedding \in Vectors, limit \in 1..MaxLimit,
           documentId \in DocFilters :
            searchSqliteVec(db, queryEmbedding, limit, documentId)
                = searchFallback(db, queryEmbedding, limit, documentId)

\* every row is of the document, and there are no more rows than the
\* document has chunks
OnlyOf(d, documentId, rows) ==
    /\ \A i \in DOMAIN rows : rows[i].documentId = documentId
    /\ Len(rows) <= Cardinality(IdsOfDocument(d, documentId))

\* C9: search(query, k, X) and retrieve(query, {documentId: X}) return only
\* chunks of X, and no more of them than X has.
C9_DocumentIsolation ==
    \A documentId \in Docs, queryEmbedding \in Vectors, limit \in 1..MaxLimit :
        /\ \A r \in search(db, usingSqliteVec, queryEmbedding, limit, documentId) :
              OnlyOf(db, documentId, r.rows)
        /\ \A minSimilarity \in MinSimilarities :
              \A r \in retrieve(db, usingSqliteVec, queryEmbedding, limit,
                                minSimilarity, documentId) :
                 OnlyOf(db, documentId, r.rows)

\* the store shows nothing of the document: listDocuments, getDocumentStats,
\* and every search and retrieve
Absent(d, vec, documentId) ==
    /\ documentId \notin listDocuments(d)
    /\ getDocumentStats(d, documentId) = [chunkCount |-> 0, totalChars |-> 0]
    /\ \A queryEmbedding \in Vectors, limit \in 1..MaxLimit,
          filter \in DocFilters, minSimilarity \in MinSimilarities :
           \A r \in search(d, vec, queryEmbedding, limit, filter)
                     \cup retrieve(d, vec, queryEmbedding, limit,
                                   minSimilarity, filter) :
              \A i \in DOMAIN r.rows : r.rows[i].documentId # documentId

\* C10: when deleteDocument(X) has returned, whatever the store held before
\* (chunks of X or none), the store shows nothing of X: X is not listed,
\* its statistics are zero, and no search or retrieve returns a chunk of X.
C10_DeletionComplete ==
    (result.op = "deleteDocument" /\ result.ok) =>
        Absent(db, usingSqliteVec, result.documentId)

\* deleteDocument has removed the two chunks of a document, the other
\* document still holding chunks
C10_Witness ==
    /\ result.op = "deleteDocument" /\ result.ok /\ result.n = 2
    /\ listDocuments(db) # {}

\* the rows of the three tables that belong to a document
RowsOf(d, documentId) ==
    <<DocRows(d, documentId), DocEmbeddings(d, documentId),
      DocVecRows(d, documentId)>>

\* C11: on an open store deleteDocument(X) returns without an error, leaves
\* the chunk rows and the embedding rows of every other document as they
\* were, and leaves the whole database as it was when X has no stored chunk.
C11_DeleteDocumentFrame ==
    [][(result'.op = "deleteDocument" /\ open) =>
         /\ result'.ok
         /\ \A other \in Docs \ {result'.documentId} :
               RowsOf(db', other) = RowsOf(db, other)
         /\ IdsOfDocument(db, result'.documentId) = {} => db' = db]_vars

\* deleteDocument has returned for a document that had no chunk, the store
\* holding chunks of another document
C11_Witness ==
    /\ result.op = "deleteDocument" /\ result.ok /\ result.n = 0
    /\ listDocuments(db) # {}

\* the store holds no chunk and no embedding, and every search is empty
Empty(d, vec) ==
    /\ listDocuments(d) = {}
    /\ d.doc_chunks = EmptyTable
    /\ d.chunk_embeddings = EmptyTable
    /\ \A queryEmbedding \in Vectors, limit \in 1..MaxLimit,
          documentId \in DocFilters :
           \A r \in search(d, vec, queryEmbedding, limit, documentId) :
              r.rows = <<>>

\* C12: clear() called on an open store returns without an error, whatever
\* has run on the store before, and leaves the store empty.
C12_ClearSucceeds ==
    (result.op = "clear" /\ result.error # NotOpen) =>
        result.ok /\ Empty(db, usingSqliteVec)

\* the errors of a closed store: that of ensureInitialized and that of
\* better-sqlite3
ClosedStoreErrors == {"RAG service is not initialized", NotOpen}

\* the errors of the embedding request a call was waiting for
EmbeddingErrors ==
    {"Batch embedding generation failed", "Embedding generation failed"}

C14_DimensionChecked ==
    \A id \in DOMAIN db.chunk_embeddings :
        Len(db.chunk_embeddings[id]) = dimensions

\* C15: no chunk is stored paired with a missing or empty vector: addChunks
\* stores nothing of a batch for which it got fewer vectors than chunks.
C15_VectorCountChecked ==
    \A id \in DOMAIN db.doc_chunks :
        id \in DOMAIN db.chunk_embeddings /\ db.chunk_embeddings[id] # <<>>

\* C16: in every reachable state the chunk ids that have an embedding row
\* are the chunk ids that have a chunk row.
C16_EmbeddingsFollowChunks ==
    DOMAIN db.chunk_embeddings = DOMAIN db.doc_chunks

\* deleteChunk has removed one chunk of a store that still holds others
C16_Witness ==
    /\ result.op = "deleteChunk" /\ result.ok /\ result.n = 1
    /\ db.doc_chunks # EmptyTable

\* C17: the chunker gives the i-th chunk it emits the index i and the id
\* documentId-i, and in every reachable state the chunk ids stored for a
\* document that has N chunks are documentId-0 .. documentId-(N-1).
C17_ContiguousIds ==
    /\ \A documentId \in Docs, input \in DOMAIN Inputs :
          LET chunks == Chunks[documentId][input]
          IN  \A i \in DOMAIN chunks :
                 /\ chunks[i].index = i - 1
                 /\ chunks[i].id = ChunkId(documentId, i - 1)
    /\ \A documentId \in Docs :
          LET ids == IdsOfDocument(db, documentId)
          IN  ids = {ChunkId(documentId, i) : i \in 0..(Cardinality(ids) - 1)}

\* the text chunk works on, and what split gives chunkBySize
Normalized == NormalizeLineEndings(chunkArgs.text)

Parts == Split(Normalized, chunkOptions.separator)

SizeMode == chunkArgs.called /\ ~chunkOptions.preserveStructure

\* C18: in size mode every chunk is at most maxChunkSize long, unless a
\* part of the text between separators is by itself longer than that.
C18_ChunkSizeBound ==
    SizeMode =>
        \/ \E i \in DOMAIN Parts : Len(Parts[i]) > chunkOptions.maxChunkSize
        \/ \A i \in DOMAIN chunkResult :
              Len(chunkResult[i].content) <= chunkOptions.maxChunkSize

\* C19: in size mode with chunkOverlap O > 0 and more than one chunk, each
\* chunk after the first begins with the last min(O, length) characters of
\* the chunk before it.
C19_OverlapPreserved ==
    (SizeMode /\ chunkOptions.chunkOverlap > 0 /\ Len(chunkResult) > 1) =>
        \A i \in 1..(Len(chunkResult) - 1) :
            LET before == chunkResult[i].content
                after == chunkResult[i + 1].content
                k == Min(chunkOptions.chunkOverlap, Len(before))
            IN  /\ Len(after) >= k
                /\ SubSeq(after, 1, k)
                      = SubSeq(before, Len(before) - k + 1, Len(before))

\* C20: a text that after the normalization of its line endings is at most
\* maxChunkSize long gives exactly one chunk, of index 0, in either mode.
C20_ShortTextSingleChunk ==
    (chunkArgs.called /\ Len(Normalized) <= chunkOptions.maxChunkSize) =>
        /\ Len(chunkResult) = 1
        /\ chunkResult[1].index = 0

\* C21: every chunk that chunk returns, in either mode, has a content that
\* is not empty and neither begins nor ends with whitespace.
C21_ContentNonEmptyTrimmed ==
    chunkArgs.called =>
        \A i \in DOMAIN chunkResult :
            /\ chunkResult[i].content # <<>>
            /\ Trim(chunkResult[i].content) = chunkResult[i].content

StructureMode == chunkArgs.called /\ chunkOptions.preserveStructure

\* the lines chunkWithStructure scans
ScannedLines == Split(Normalized, <<"\n">>)

\* the text of the last heading line among the first n lines scanned
LastHeading(n) ==
    LET headings == {j \in 1..n : headingMatch(ScannedLines[j]) # NoMatch}
    IN  IF headings = {} THEN Undefined
        ELSE Str(headingMatch(ScannedLines[
                 CHOOSE j \in headings : \A i \in headings : i <= j]))

\* how many chunks have been flushed when the first j lines are scanned
FlushedAfter(j) ==
    Len(chunkWithStructureLoop(chunkOptions, chunkArgs.documentId,
            chunkArgs.metadata, <<<<>>, <<>>, <<>>, 0>>,
            SubSeq(ScannedLines, 1, j))[1])

\* the last line of the k-th chunk: the line before the one whose scan
\* flushed it, and the last line of the text for the remaining buffer
LastLineOf(k) ==
    LET flushing == {j \in 1..Len(ScannedLines) : FlushedAfter(j) >= k}
    IN  IF flushing = {} THEN Len(ScannedLines)
        ELSE (CHOOSE j \in flushing : \A i \in flushing : j <= i) - 1

\* C22: in structure mode the heading in the metadata of every chunk is the
\* text of the last heading line among the lines scanned up to the last
\* line of the chunk, and there is none when no heading was scanned by then.
C22_HeadingTag ==
    StructureMode =>
        \A k \in DOMAIN chunkResult :
            HeadingOf(chunkResult[k].metadata) = LastHeading(LastLineOf(k))

\* a text with two headings: the chunk before the first heading carries
\* none, and the chunk the second heading flushed carries the first
C22_Witness ==
    /\ StructureMode
    /\ Len(chunkResult) = 3
    /\ HeadingOf(chunkResult[1].metadata) = Undefined
    /\ HeadingOf(chunkResult[2].metadata) = "a"
    /\ HeadingOf(chunkResult[3].metadata) = "b "

\* C23: what retrieve returns has at most maxResults results, each of a
\* similarity of at least minSimilarity, most similar first, and a
\* chunkCount that is the number of the results returned.
C23_RetrieveShape ==
    \A queryEmbedding \in Vectors, maxResults \in 1..MaxLimit,
       minSimilarity \in MinSimilarities, documentId \in DocFilters :
        \A r \in retrieve(db, usingSqliteVec, queryEmbedding, maxResults,
                          minSimilarity, documentId) :
            r.ok =>
                /\ Len(r.rows) <= maxResults
                /\ r.chunkCount = Len(r.rows)
                /\ \A i \in DOMAIN r.rows :
                      SimGE(r.rows[i].similarity, minSimilarity)
                /\ Descending(r.rows)

\* retrieve has returned fewer results than the store has chunks: some were
\* filtered out or cut
C23_Witness ==
    /\ result.op = "retrieve" /\ result.ok
    /\ result.n >= 1
    /\ result.n < Cardinality(JoinedIds(db))

\* the stored chunks that match: those of the document, when one is given,
\* whose similarity to the query is at least minSimilarity
Matching(d, queryEmbedding, minSimilarity, documentId) ==
    {id \in Candidates(d, documentId) \cap DOMAIN d.chunk_embeddings :
        SimGE(StoredSimilarity(d, queryEmbedding, id), minSimilarity)}

\* C24: retrieve on an open store in which no chunk matches (no chunk at
\* all, none of the document asked for, or none of a similarity of at least
\* minSimilarity) returns normally, with an empty context, chunkCount 0 and
\* no result.
C24_RetrieveNoMatch ==
    \A queryEmbedding \in Vectors, maxResults \in 1..MaxLimit,
       minSimilarity \in MinSimilarities, documentId \in DocFilters :
        Matching(db, queryEmbedding, minSimilarity, documentId) = {} =>
            \A r \in retrieve(db, usingSqliteVec, queryEmbedding, maxResults,
                              minSimilarity, documentId) :
                /\ r.ok
                /\ r.context = <<>>
                /\ r.chunkCount = 0
                /\ r.rows = <<>>

\* C25: when one of the two vectors has norm 0, the similarity a
\* cosineSimilarity function computes for them is the number 0, and the
\* call does not throw.
C25_ZeroNormSafe ==
    (/\ similarityArgs.called
     /\ Len(similarityArgs.a) = Len(similarityArgs.b)
     /\ Dot(similarityArgs.a, similarityArgs.a) = 0
          \/ Dot(similarityArgs.b, similarityArgs.b) = 0) =>
        /\ similarityResult.ok
        /\ similarityResult.value.num = 0
        /\ similarityResult.value.den > 0

\* the outcomes of the steps of search and of retrieve
SearchOutcomes == {"search:await", "search", "retrieve:await", "retrieve"}

\* C26: a step of search or of retrieve, whether the call goes on to return
\* or to fail, leaves the store as it was: what listDocuments,
\* getDocumentStats and getChunk show is unchanged, and so is what a clear()
\* that follows does.
C26_SearchReadOnly ==
    [][result'.op \in SearchOutcomes =>
         /\ Observable(db') = Observable(db)
         /\ clear(db') = clear(db)]_vars

\* C27: while one indexDocument(X, text) is suspended, no other
\* indexDocument for X having been suspended along with it, the store shows
\* nothing of X, neither its previous chunks nor some of the new ones, to
\* listDocuments, getDocumentStats and every search and retrieve; and when
\* the call has returned the store holds for X exactly chunk(X, text).
C27_AllOrNothing ==
    /\ \A c \in calls :
          ~c.raced => Absent(db, usingSqliteVec, c.documentId)
    /\ (IndexReturned /\ ~result.raced) =>
          \/ Absent(db, usingSqliteVec, result.documentId)
          \/ StoredExactly(db, usingSqliteVec, result.documentId, ResultChunks)

\* a search has returned rows while an indexDocument of the two-chunk text
\* is suspended by itself
C27_Witness ==
    /\ result.op \in {"search", "retrieve"} /\ result.ok /\ result.n > 0
    /\ \E c \in calls : ~c.raced /\ Len(ChunksOf(c)) = 2

\* C28: retrieve(query, {maxResults: m, minSimilarity: s, documentId})
\* returns exactly min(m, c) results, c being the number of stored chunks
\* (of the document, when one is given) whose similarity is at least s, and
\* they are matching chunks none of which a matching chunk left out is more
\* similar than.
C28_RetrieveCount ==
    \A queryEmbedding \in Vectors, maxResults \in 1..MaxLimit,
       minSimilarity \in MinSimilarities, documentId \in DocFilters :
        \A r \in retrieve(db, usingSqliteVec, queryEmbedding, maxResults,
                          minSimilarity, documentId) :
            LET matching == Matching(db, queryEmbedding, minSimilarity,
                                     documentId)
                returned == {r.rows[i].chunkId : i \in DOMAIN r.rows}
            IN  /\ r.ok
                /\ Len(r.rows) = Min(maxResults, Cardinality(matching))
                /\ returned \subseteq matching
                /\ \A i \in DOMAIN r.rows, id \in matching \ returned :
                      SimGE(r.rows[i].similarity,
                            StoredSimilarity(db, queryEmbedding, id))

\* a deleteDocument of the document, or a clear, has just returned
Removed(documentId) ==
    /\ result.ok
    /\ \/ result.op = "deleteDocument" /\ result.documentId = documentId
       \/ result.op = "clear"

\* C29: a deleteDocument(X) or a clear() that returns while an
\* indexDocument(X, text) is suspended does not cancel the call: when the
\* call then completes, the store holds for X exactly chunk(X, text), and
\* listDocuments lists X.
C29_DeleteDoesNotCancel ==
    [][\A c \in calls \ calls' :
          (Removed(c.documentId) /\ result'.op = "indexDocument" /\ result'.ok) =>
             /\ StoredExactly(db', usingSqliteVec, c.documentId, ChunksOf(c))
             /\ c.documentId \in listDocuments(db')
             /\ result'.n = Len(ChunksOf(c))]_vars

\* a deleteDocument of a document has returned while an indexDocument of
\* the two-chunk text for it is suspended
C29_Witness ==
    /\ result.op = "deleteDocument" /\ result.ok
    /\ \E c \in calls :
          c.documentId = result.documentId /\ Len(ChunksOf(c)) = 2

\* p occurs in s as a contiguous substring
Occurs(p, s) == \E i \in 1..(Len(s) + 1) : StartsWithAt(s, p, i)

\* the part is whole in the content of a chunk: it occurs in it, or it is
\* at an edge of the content and only the whitespace createChunk trimmed
\* there is missing
Whole(part, content) ==
    \/ Occurs(part, content)
    \/ StartsWithAt(content, TrimStart(part), 1)
    \/ /\ Len(TrimEnd(part)) <= Len(content)
       /\ StartsWithAt(content, TrimEnd(part),
                       Len(content) - Len(TrimEnd(part)) + 1)
    \/ content = Trim(part)

\* the parts from the k-th on that are not pure whitespace are whole in
\* chunks from the lo-th on, parts further on in chunks no further back
RECURSIVE InOrder(_, _)
InOrder(k, lo) ==
    IF k > Len(Parts) THEN TRUE
    ELSE IF Trim(Parts[k]) = <<>> THEN InOrder(k + 1, lo)
    ELSE LET holding == {c \in lo..Len(chunkResult) :
                            Whole(Parts[k], chunkResult[c].content)}
         IN  /\ holding # {}
             /\ InOrder(k + 1, CHOOSE c \in holding : \A x \in holding : c <= x)

\* C30: in size mode, for a text longer than maxChunkSize, every part of
\* the text between separators that is not pure whitespace is whole, up to
\* the whitespace trimmed at the edges of a chunk, in the content of a
\* chunk; the parts are found in chunks in the order of the text; and there
\* are no more chunks than parts.
C30_PartsKeptWhole ==
    (SizeMode /\ Len(Normalized) > chunkOptions.maxChunkSize) =>
        /\ InOrder(1, 1)
        /\ Len(chunkResult) <= Len(Parts)

\* the example text chunked in size mode: three parts in three chunks, the
\* second and the third chunk beginning with the overlap
C30_Witness ==
    /\ SizeMode /\ chunkArgs.text = ExampleText
    /\ chunkOptions = ExampleOptions
    /\ Len(Parts) = 3 /\ Len(chunkResult) = 3

====
